---- MODULE Spec2Model ----
(***************************************************************************)
(* Model of the Hermes RAG backend: backend/rag_engine.py                  *)
(* (get_rag_response and the qa_chain it drives) and backend/rag_service.py *)
(* (the POST /rag handler rag_chat).                                       *)
(*                                                                         *)
(* Text is a sequence of characters.  The fixed messages of the program    *)
(* are one-element sequences holding the whole literal; the content of a   *)
(* chunk and the "\n\n" separator are single elements of a context.        *)
(* Cosine distances are in thousandths and relevance scores are whole      *)
(* percents (100 * exp(-3 * d) rounded to the nearest integer); the mean   *)
(* and the standard deviation are compared exactly, as rationals.          *)
(***************************************************************************)
EXTENDS Integers, Sequences, FiniteSets, TLC

\* ---------------------------------------------------------------- bounds
MaxQueryLen == 2
MaxRespLen == 2

\* ------------------------------------------------------- program constants
K == 3
BASE_THRESHOLD == 60
THRESHOLD_BUMP == 10
MEAN_FLOOR == 40
STD_CEILING == 20
DEFAULT_THRESHOLD == 60
STATUS_BAD_REQUEST == 400
STATUS_SERVER_ERROR == 500
STATUS_OK == 200

Procs == {1, 2}
Chars == {"a", " "}
Whitespace == {" ", "\t", "\n"}
Chunks == {"c1", "c2", "c3"}
SEP == "\n\n"

MSG_INVALID == <<"Please provide a valid question.">>
MSG_FALLBACK == <<"I don't have any relevant information from the provided documents to answer your question. Let me answer based on my general knowledge.">>
MSG_APOLOGY == <<"I apologize, but I couldn't generate a meaningful response. Please try rephrasing your question.">>
MSG_ERROR_PREFIX == <<"Error processing query: ">>
MSG_HTTP_APOLOGY == <<"I apologize, but I couldn't generate a response. Please try again.">>
MSG_NO_MESSAGE == <<"No message provided in request">>

\* ------------------------------------------------------------ python values
PyNone == [kind |-> "None"]
PyStr(s) == [kind |-> "str", val |-> s]

TextsUpTo(n) == UNION {[1..k -> Chars] : k \in 0..n}

\* str.strip(): leading and trailing whitespace removed
RECURSIVE LStrip(_)
LStrip(s) == IF s /= <<>> /\ Head(s) \in Whitespace THEN LStrip(Tail(s)) ELSE s
RECURSIVE RStrip(_)
RStrip(s) ==
    IF s /= <<>> /\ s[Len(s)] \in Whitespace THEN RStrip(SubSeq(s, 1, Len(s) - 1)) ELSE s
Strip(s) == RStrip(LStrip(s))

\* truth value of a python object: None and "" are falsy
Truthy(v) == v.kind = "str" /\ v.val /= <<>>

NoExc == [type |-> "none"]
PlainExc(m, where) == [type |-> "Exception", msg |-> m, site |-> where]
HTTPException(status_code, detail) ==
    [type |-> "HTTPException", status |-> status_code, detail |-> detail]

\* str(e): the message of a plain exception; starlette renders an
\* HTTPException as "<status>: <detail>"
StatusText(status) ==
    CASE status = STATUS_BAD_REQUEST -> "400"
      [] status = STATUS_SERVER_ERROR -> "500"
      [] OTHER -> "200"

StrExc(e) ==
    IF e.type = "HTTPException"
    THEN <<StatusText(e.status), ": ">> \o e.detail
    ELSE e.msg

\* ------------------------------------------------------------ inputs
ExcMsgs == {<<>>, <<"e">>}
Distances == {0, 119, 170, 305, 1000}

\* 100 * exp(-3 * d / 1000), rounded to the nearest whole percent
ExpDecayTable == [d \in Distances |->
    CASE d = 0 -> 100
      [] d = 119 -> 70
      [] d = 170 -> 60
      [] d = 305 -> 40
      [] d = 1000 -> 5]

calculate_relevance_score(score) == ExpDecayTable[score]

Candidate == [doc : Chunks, score : Distances]

\* what similarity_search_with_score can return: at most K candidates, best
\* (smallest distance) first; one chunk has one distance to a given query
IndexResults ==
    {r \in UNION {[1..n -> Candidate] : n \in 0..K} :
        /\ \A i \in 1..(Len(r) - 1) : r[i].score <= r[i + 1].score
        /\ \A i, j \in 1..Len(r) : r[i].doc = r[j].doc => r[i].score = r[j].score}

\* ------------------------------------------------------------ pure steps
RECURSIVE SumSeq(_)
SumSeq(s) == IF s = <<>> THEN 0 ELSE Head(s) + SumSeq(Tail(s))

SquaresOf(s) == [i \in 1..Len(s) |-> s[i] * s[i]]

\* np.mean(all_scores) < m, for a non-empty batch
MeanBelow(scores, m) == SumSeq(scores) < m * Len(scores)

\* (np.std(all_scores) if len(all_scores) > 1 else 0) > c: the population
\* variance (mean of squares minus square of mean) against c squared
StdAbove(scores, c) ==
    LET n == Len(scores)
        s == SumSeq(scores)
    IN  IF n > 1
        THEN n * SumSeq(SquaresOf(scores)) - s * s > c * c * n * n
        ELSE 0 > c

\* first pass: one relevance score per retrieved candidate
FirstPassScores(ds) == [i \in 1..Len(ds) |-> calculate_relevance_score(ds[i].score)]

ChooseThresholdNoStd(scores) ==
    IF scores /= <<>>
    THEN IF MeanBelow(scores, MEAN_FLOOR)
         THEN BASE_THRESHOLD + THRESHOLD_BUMP
         ELSE BASE_THRESHOLD
    ELSE DEFAULT_THRESHOLD

\* the dynamic threshold
ChooseThreshold(scores) ==
    IF scores /= <<>>
    THEN IF MeanBelow(scores, MEAN_FLOOR) \/ StdAbove(scores, STD_CEILING)
         THEN BASE_THRESHOLD + THRESHOLD_BUMP
         ELSE BASE_THRESHOLD
    ELSE DEFAULT_THRESHOLD

AcceptsStrict(relevance_score, thr) == relevance_score > thr

\* if relevance_score >= threshold
Accepts(relevance_score, thr) == relevance_score >= thr

\* second pass: the loop over zip(docs_and_scores, all_scores)
RECURSIVE SecondPassFrom(_, _, _, _)
SecondPassFrom(ds, scores, thr, i) ==
    IF i > Len(ds) \/ i > Len(scores)
    THEN <<>>
    ELSE (IF Accepts(scores[i], thr) THEN <<ds[i].doc>> ELSE <<>>)
         \o SecondPassFrom(ds, scores, thr, i + 1)

SecondPass(ds, scores, thr) == SecondPassFrom(ds, scores, thr, 1)

\* sep.join(parts)
RECURSIVE Join(_, _)
Join(parts, sep) ==
    IF parts = <<>> THEN <<>>
    ELSE IF Len(parts) = 1 THEN <<Head(parts)>>
    ELSE <<Head(parts), sep>> \o Join(Tail(parts), sep)

\* the stuff-documents prompt of the RetrievalQA chain: the context slot is
\* filled from the documents the chain's own retriever returned, the
\* question slot from the "query" input; a "context" input key is not read
QaChainPrompt(inputs, docs) ==
    [context |-> Join(docs, SEP), question |-> inputs.query]

\* not query or not query.strip()
IsBlankQueryNoStrip(q) == ~Truthy(q)

IsBlankQuery(q) == ~Truthy(q) \/ Strip(q.val) = <<>>

\* return response or "<fallback>"
ReturnNoEvidence(result) == IF result /= <<>> THEN result ELSE MSG_FALLBACK

ReturnEvidenceRaw(result) == result

\* the blank-answer guard of the evidence path
ReturnEvidence(result) ==
    IF result = <<>> \/ Strip(result) = <<>> THEN MSG_APOLOGY ELSE result

\* f"Error processing query: {str(e)}"
ErrorMessage(e) == MSG_ERROR_PREFIX \o StrExc(e)

\* ------------------------------------------------------------ state
VARIABLES
    pc,                    \* position of each invocation
    via,                   \* "http" (through rag_chat) or "direct"
    body,                  \* rag_chat: the request body
    http_exc,              \* rag_chat: the exception its except clause caught
    http_response,         \* rag_chat: the response sent
    query,                 \* get_rag_response: query
    index,                 \* what the vector index holds for the query
    docs_and_scores,
    all_scores,
    threshold,
    filtered_docs,
    chain_input,           \* the dict passed to qa_chain.invoke
    chain_docs,            \* the documents qa_chain's retriever returned
    llm_calls,             \* the prompts sent to the language model
    retrieval_calls,       \* number of searches of the index
    response,              \* what qa_chain.invoke returned
    exc,                   \* the exception caught by get_rag_response
    ret,                   \* the value get_rag_response returned
    after_failure,         \* the invocation finished before this one began
                           \* had its retrieval raise
    last_retrieval_raised  \* the last finished invocation had its retrieval raise

locals == <<query, index, docs_and_scores, all_scores, threshold, filtered_docs,
            chain_input, chain_docs, llm_calls, retrieval_calls, response, exc, ret>>
http == <<via, body, http_exc, http_response>>
history == <<after_failure, last_retrieval_raised>>
vars == <<pc, http, locals, history>>

NoBody == [kind |-> "none"]
NoResponse == [status |-> 0]
NoInput == [query |-> <<>>, context |-> <<>>]
NoOutput == [query |-> <<>>, context |-> <<>>, result |-> <<>>]

Bodies ==
    {[kind |-> "malformed"], [kind |-> "object", has_message |-> FALSE]}
    \cup {[kind |-> "object", has_message |-> TRUE, message |-> m] :
             m \in {PyNone} \cup {PyStr(t) : t \in TextsUpTo(MaxQueryLen)}}

\* body.get("message")
BodyGet(b) == IF b.has_message THEN b.message ELSE PyNone

QueryValues == {PyNone} \cup {PyStr(t) : t \in TextsUpTo(MaxQueryLen)}

Init ==
    /\ pc = [p \in Procs |-> "idle"]
    /\ via = [p \in Procs |-> "direct"]
    /\ body = [p \in Procs |-> NoBody]
    /\ http_exc = [p \in Procs |-> NoExc]
    /\ http_response = [p \in Procs |-> NoResponse]
    /\ query = [p \in Procs |-> PyNone]
    /\ index = [p \in Procs |-> <<>>]
    /\ docs_and_scores = [p \in Procs |-> <<>>]
    /\ all_scores = [p \in Procs |-> <<>>]
    /\ threshold = [p \in Procs |-> 0]
    /\ filtered_docs = [p \in Procs |-> <<>>]
    /\ chain_input = [p \in Procs |-> NoInput]
    /\ chain_docs = [p \in Procs |-> <<>>]
    /\ llm_calls = [p \in Procs |-> <<>>]
    /\ retrieval_calls = [p \in Procs |-> 0]
    /\ response = [p \in Procs |-> NoOutput]
    /\ exc = [p \in Procs |-> NoExc]
    /\ ret = [p \in Procs |-> <<>>]
    /\ after_failure = [p \in Procs |-> FALSE]
    /\ last_retrieval_raised = FALSE

Idle(p) == pc[p] = "idle"

\* a new invocation by p, on a fresh frame
Enter(p, how, b, q, ix) ==
    /\ via' = [via EXCEPT ![p] = how]
    /\ body' = [body EXCEPT ![p] = b]
    /\ query' = [query EXCEPT ![p] = q]
    /\ index' = [index EXCEPT ![p] = ix]
    /\ after_failure' = [after_failure EXCEPT ![p] = last_retrieval_raised]
    /\ UNCHANGED <<http_exc, http_response, docs_and_scores, all_scores, threshold,
                   filtered_docs, chain_input, chain_docs, llm_calls,
                   retrieval_calls, response, exc, ret, last_retrieval_raised>>

\* the caller has its result: the frame of the invocation is dropped
Finish(p) ==
    /\ pc[p] \in {"done", "responded"}
    /\ pc' = [pc EXCEPT ![p] = "idle"]
    /\ via' = [via EXCEPT ![p] = "direct"]
    /\ body' = [body EXCEPT ![p] = NoBody]
    /\ http_exc' = [http_exc EXCEPT ![p] = NoExc]
    /\ http_response' = [http_response EXCEPT ![p] = NoResponse]
    /\ query' = [query EXCEPT ![p] = PyNone]
    /\ index' = [index EXCEPT ![p] = <<>>]
    /\ docs_and_scores' = [docs_and_scores EXCEPT ![p] = <<>>]
    /\ all_scores' = [all_scores EXCEPT ![p] = <<>>]
    /\ threshold' = [threshold EXCEPT ![p] = 0]
    /\ filtered_docs' = [filtered_docs EXCEPT ![p] = <<>>]
    /\ chain_input' = [chain_input EXCEPT ![p] = NoInput]
    /\ chain_docs' = [chain_docs EXCEPT ![p] = <<>>]
    /\ llm_calls' = [llm_calls EXCEPT ![p] = <<>>]
    /\ retrieval_calls' = [retrieval_calls EXCEPT ![p] = 0]
    /\ response' = [response EXCEPT ![p] = NoOutput]
    /\ exc' = [exc EXCEPT ![p] = NoExc]
    /\ ret' = [ret EXCEPT ![p] = <<>>]
    /\ after_failure' = [after_failure EXCEPT ![p] = FALSE]
    /\ UNCHANGED last_retrieval_raised

\* get_rag_response(query) called directly
Call(p) ==
    /\ Idle(p)
    /\ \E q \in QueryValues, ix \in IndexResults :
           Enter(p, "direct", NoBody, q, ix)
    /\ pc' = [pc EXCEPT ![p] = "guard"]

\* a POST /rag arrives
Request(p) ==
    /\ Idle(p)
    /\ \E b \in Bodies, ix \in IndexResults :
           Enter(p, "http", b, PyNone, ix)
    /\ pc' = [pc EXCEPT ![p] = "http_parse"]

\* where control goes when get_rag_response returns
ReturnTo(p) == IF via[p] = "http" THEN "http_respond" ELSE "done"

\* get_rag_response returns value v
Return(p, v) ==
    /\ ret' = [ret EXCEPT ![p] = v]
    /\ pc' = [pc EXCEPT ![p] = ReturnTo(p)]
    /\ last_retrieval_raised' = (exc[p].type /= "none" /\ exc[p].site = "retrieve")
    /\ UNCHANGED after_failure

\* rag_chat: body = await request.json(); query = body.get("message");
\* if not query: raise HTTPException(400); every exception raised in the
\* try block lands in its "except Exception" clause
RagChatParse(p) ==
    /\ pc[p] = "http_parse"
    /\ IF body[p].kind = "malformed"
       THEN /\ \E m \in ExcMsgs :
                   http_exc' = [http_exc EXCEPT ![p] = PlainExc(m, "json")]
            /\ pc' = [pc EXCEPT ![p] = "http_except"]
            /\ UNCHANGED query
       ELSE IF ~Truthy(BodyGet(body[p]))
       THEN /\ http_exc' = [http_exc EXCEPT ![p] =
                              HTTPException(STATUS_BAD_REQUEST, MSG_NO_MESSAGE)]
            /\ pc' = [pc EXCEPT ![p] = "http_except"]
            /\ UNCHANGED query
       ELSE /\ query' = [query EXCEPT ![p] = BodyGet(body[p])]
            /\ pc' = [pc EXCEPT ![p] = "guard"]
            /\ UNCHANGED http_exc
    /\ UNCHANGED <<via, body, http_response, index, docs_and_scores, all_scores,
                   threshold, filtered_docs, chain_input, chain_docs, llm_calls,
                   retrieval_calls, response, exc, ret, history>>

\* rag_chat: the answer is sent
RagChatRespond(p) ==
    /\ pc[p] = "http_respond"
    /\ http_response' = [http_response EXCEPT ![p] =
           [status |-> STATUS_OK,
            answer |-> IF ret[p] = <<>> THEN MSG_HTTP_APOLOGY ELSE ret[p]]]
    /\ pc' = [pc EXCEPT ![p] = "responded"]
    /\ UNCHANGED <<via, body, http_exc, locals, history>>

\* rag_chat: except Exception as e: raise HTTPException(500, detail=str(e))
RagChatExcept(p) ==
    /\ pc[p] = "http_except"
    /\ http_response' = [http_response EXCEPT ![p] =
           [status |-> STATUS_SERVER_ERROR, detail |-> StrExc(http_exc[p])]]
    /\ pc' = [pc EXCEPT ![p] = "responded"]
    /\ UNCHANGED <<via, body, http_exc, locals, history>>

\* ------------------------------------------------- get_rag_response, by step
\* if not query or not query.strip(): return "Please provide a valid question."
Guard(p) ==
    /\ pc[p] = "guard"
    /\ IF IsBlankQuery(query[p])
       THEN Return(p, MSG_INVALID)
       ELSE /\ pc' = [pc EXCEPT ![p] = "retrieve"]
            /\ UNCHANGED <<ret, history>>
    /\ UNCHANGED <<http, query, index, docs_and_scores, all_scores, threshold,
                   filtered_docs, chain_input, chain_docs, llm_calls,
                   retrieval_calls, response, exc>>

\* a call raises inside the try block: control moves to the except clause
Raise(p, e) ==
    /\ exc' = [exc EXCEPT ![p] = e]
    /\ pc' = [pc EXCEPT ![p] = "except"]

\* docs_and_scores = vectordb.similarity_search_with_score(query, k=3)
Retrieve(p) ==
    /\ pc[p] = "retrieve"
    /\ retrieval_calls' = [retrieval_calls EXCEPT ![p] = @ + 1]
    /\ \/ /\ \E m \in ExcMsgs : Raise(p, PlainExc(m, "retrieve"))
          /\ UNCHANGED docs_and_scores
       \/ /\ docs_and_scores' = [docs_and_scores EXCEPT ![p] = index[p]]
          /\ pc' = [pc EXCEPT ![p] = "first_pass"]
          /\ UNCHANGED exc
    /\ UNCHANGED <<http, query, index, all_scores, threshold, filtered_docs,
                   chain_input, chain_docs, llm_calls, response, ret, history>>

\* first pass: calculate all scores
FirstPass(p) ==
    /\ pc[p] = "first_pass"
    /\ all_scores' = [all_scores EXCEPT ![p] = FirstPassScores(docs_and_scores[p])]
    /\ pc' = [pc EXCEPT ![p] = "threshold"]
    /\ UNCHANGED <<http, query, index, docs_and_scores, threshold, filtered_docs,
                   chain_input, chain_docs, llm_calls, retrieval_calls, response,
                   exc, ret, history>>

ThresholdBatchShared(p) == all_scores[CHOOSE q \in Procs : q /= p]

\* the batch the threshold of p is computed from: its own all_scores
ThresholdBatch(p) == all_scores[p]

\* calculate statistics, choose the threshold
Threshold(p) ==
    /\ pc[p] = "threshold"
    /\ threshold' = [threshold EXCEPT ![p] = ChooseThreshold(ThresholdBatch(p))]
    /\ pc' = [pc EXCEPT ![p] = "second_pass"]
    /\ UNCHANGED <<http, query, index, docs_and_scores, all_scores, filtered_docs,
                   chain_input, chain_docs, llm_calls, retrieval_calls, response,
                   exc, ret, history>>

\* second pass: filter and collect documents
Filter(p) ==
    /\ pc[p] = "second_pass"
    /\ filtered_docs' = [filtered_docs EXCEPT ![p] =
           SecondPass(docs_and_scores[p], all_scores[p], threshold[p])]
    /\ pc' = [pc EXCEPT ![p] = "invoke"]
    /\ UNCHANGED <<http, query, index, docs_and_scores, all_scores, threshold,
                   chain_input, chain_docs, llm_calls, retrieval_calls, response,
                   exc, ret, history>>

\* qa_chain.invoke({"query": query, "context": ""}) when nothing was
\* accepted, qa_chain.invoke({"query": query, "context": context}) otherwise
Invoke(p) ==
    /\ pc[p] = "invoke"
    /\ chain_input' = [chain_input EXCEPT ![p] =
           [query |-> query[p].val,
            context |-> IF filtered_docs[p] = <<>>
                        THEN <<>>
                        ELSE Join(filtered_docs[p], SEP)]]
    /\ pc' = [pc EXCEPT ![p] = "chain_retrieve"]
    /\ UNCHANGED <<http, query, index, docs_and_scores, all_scores, threshold,
                   filtered_docs, chain_docs, llm_calls, retrieval_calls, response,
                   exc, ret, history>>

\* inside qa_chain: the retriever (similarity search, k = 3) fetches the
\* documents for the "query" input
ChainRetrieve(p) ==
    /\ pc[p] = "chain_retrieve"
    /\ retrieval_calls' = [retrieval_calls EXCEPT ![p] = @ + 1]
    /\ \/ /\ \E m \in ExcMsgs : Raise(p, PlainExc(m, "chain_retrieve"))
          /\ UNCHANGED chain_docs
       \/ /\ chain_docs' = [chain_docs EXCEPT ![p] =
                 [i \in 1..Len(index[p]) |-> index[p][i].doc]]
          /\ pc' = [pc EXCEPT ![p] = "chain_generate"]
          /\ UNCHANGED exc
    /\ UNCHANGED <<http, query, index, docs_and_scores, all_scores, threshold,
                   filtered_docs, chain_input, llm_calls, response, ret, history>>

\* inside qa_chain: the prompt is built and sent to the language model
ChainGenerate(p) ==
    /\ pc[p] = "chain_generate"
    /\ llm_calls' = [llm_calls EXCEPT ![p] =
           Append(@, QaChainPrompt(chain_input[p], chain_docs[p]))]
    /\ \/ /\ \E m \in ExcMsgs : Raise(p, PlainExc(m, "generate"))
          /\ UNCHANGED response
       \/ /\ \E t \in TextsUpTo(MaxRespLen) :
                 response' = [response EXCEPT ![p] =
                     [query |-> chain_input[p].query,
                      context |-> chain_input[p].context,
                      result |-> t]]
          /\ pc' = [pc EXCEPT ![p] = "return"]
          /\ UNCHANGED exc
    /\ UNCHANGED <<http, query, index, docs_and_scores, all_scores, threshold,
                   filtered_docs, chain_input, chain_docs, retrieval_calls, ret,
                   history>>

\* response = response.get("result", ""), then the return of either path
Answer(p) ==
    /\ pc[p] = "return"
    /\ Return(p, IF filtered_docs[p] = <<>>
                 THEN ReturnNoEvidence(response[p].result)
                 ELSE ReturnEvidence(response[p].result))
    /\ UNCHANGED <<http, query, index, docs_and_scores, all_scores, threshold,
                   filtered_docs, chain_input, chain_docs, llm_calls,
                   retrieval_calls, response, exc>>

ExceptRetry(p) ==
    /\ pc[p] = "except"
    /\ pc' = [pc EXCEPT ![p] = "retrieve"]
    /\ UNCHANGED <<http, locals, history>>

ExceptPropagate(p) ==
    /\ pc[p] = "except"
    /\ pc' = [pc EXCEPT ![p] = IF via[p] = "http" THEN "http_except" ELSE "done"]
    /\ http_exc' = [http_exc EXCEPT ![p] = exc[p]]
    /\ UNCHANGED <<via, body, http_response, locals, history>>

\* except Exception as e: return f"Error processing query: {str(e)}"
Except(p) ==
    /\ pc[p] = "except"
    /\ Return(p, ErrorMessage(exc[p]))
    /\ UNCHANGED <<http, query, index, docs_and_scores, all_scores, threshold,
                   filtered_docs, chain_input, chain_docs, llm_calls,
                   retrieval_calls, response, exc>>

\* one server process: requests through rag_chat and direct calls
Next ==
    \/ Call(1)
    \/ Finish(1)
    \/ Request(1)
    \/ RagChatParse(1)
    \/ RagChatRespond(1)
    \/ RagChatExcept(1)
    \/ Guard(1)
    \/ Retrieve(1)
    \/ FirstPass(1)
    \/ Threshold(1)
    \/ Filter(1)
    \/ Invoke(1)
    \/ ChainRetrieve(1)
    \/ ChainGenerate(1)
    \/ Answer(1)
    \/ Except(1)

Spec == Init /\ [][Next]_vars

\* several invocations of get_rag_response in flight at once, over a small
\* index: two candidates at most, the chunk fixed by the rank
ConcDistances == {170, 1000}
ConcQueries == {PyStr(<<"a">>), PyStr(<<" ">>)}
ConcIndexResults ==
    {r \in IndexResults :
        /\ Len(r) <= 2
        /\ \A i \in 1..Len(r) :
               /\ r[i].score \in ConcDistances
               /\ r[i].doc = (IF i = 1 THEN "c1" ELSE "c2")}

ConcCall(p) ==
    /\ Idle(p)
    /\ \E q \in ConcQueries, ix \in ConcIndexResults :
           Enter(p, "direct", NoBody, q, ix)
    /\ pc' = [pc EXCEPT ![p] = "guard"]

NextConc ==
    \E p \in Procs :
        \/ ConcCall(p)
        \/ Finish(p)
        \/ Guard(p)
        \/ Retrieve(p)
        \/ FirstPass(p)
        \/ Threshold(p)
        \/ Filter(p)
        \/ Invoke(p)
        \/ ChainRetrieve(p)
        \/ ChainGenerate(p)
        \/ Answer(p)
        \/ Except(p)

SpecConc == Init /\ [][NextConc]_vars

\* ------------------------------------------------------------ properties
Returned(p) == pc[p] \in {"done", "http_respond", "responded"}

\* the language model was called and returned text
Generated(p) == Returned(p) /\ exc[p] = NoExc /\ llm_calls[p] /= <<>>

Raised(p) == exc[p].type /= "none"

\* get_rag_response has been called by p
Entered(p) ==
    pc[p] \notin {"idle", "http_parse", "http_except"} /\ http_exc[p] = NoExc

\* the steps after the first pass, after the threshold, after the filter
AfterScores == {"threshold", "second_pass", "invoke", "chain_retrieve",
                "chain_generate", "return"}
AfterThreshold == AfterScores \ {"threshold"}
AfterFilter == AfterThreshold \ {"second_pass"}
Passed(p, steps) ==
    \/ pc[p] \in steps
    \/ pc[p] \in {"except", "done", "http_respond", "responded"}
       /\ retrieval_calls[p] >= 2

\* empty, None or only whitespace
BlankValue(q) ==
    q = PyNone \/ (q.kind = "str" /\ \A i \in 1..Len(q.val) : q.val[i] \in Whitespace)

\* the threshold as the specification words it: 70 when the mean is below
\* 40 or the population standard deviation above 20, else 60; in integers,
\* sum((n*x - S)^2) / n^3 is the variance
StatedThreshold(batch) ==
    LET n == Len(batch)
        S == SumSeq(batch)
        dev == [i \in 1..n |-> (n * batch[i] - S) * (n * batch[i] - S)]
    IN  IF n = 0 THEN 60
        ELSE IF S < 40 * n \/ SumSeq(dev) > 400 * n * n * n THEN 70
        ELSE 60

\* the i-th smallest element of a set of integers
Nth(S, i) == CHOOSE x \in S : Cardinality({y \in S : y <= x}) = i

\* the candidates of ds whose score reaches thr, in retrieval order
StatedAccepted(ds, scores, thr) ==
    LET acc == {i \in 1..Len(ds) : scores[i] >= thr}
    IN  [j \in 1..Cardinality(acc) |-> ds[Nth(acc, j)].doc]

ScoresOf(ix) == [i \in 1..Len(ix) |-> ExpDecayTable[ix[i].score]]

C2_ThresholdChoice ==
    \A p \in Procs :
        Passed(p, AfterThreshold) =>
            /\ threshold[p] \in {60, 70}
            /\ threshold[p] = StatedThreshold(all_scores[p])
            /\ (Len(all_scores[p]) = 1 =>
                   threshold[p] = (IF all_scores[p][1] < 40 THEN 70 ELSE 60))

\* a batch whose mean is at least 40 and whose deviation alone raises the bar
C2_Witness ==
    \E p \in Procs :
        /\ pc[p] = "second_pass"
        /\ all_scores[p] = <<100, 100, 5>>
        /\ threshold[p] = 70

\* C3: a candidate is accepted iff its score is >= the threshold, and the
\* accepted list is the candidates' subsequence in retrieval order.
C3_FilterInclusiveInOrder ==
    \A p \in Procs :
        Passed(p, AfterFilter) =>
            filtered_docs[p] =
                StatedAccepted(docs_and_scores[p], all_scores[p], threshold[p])

\* a score exactly on the threshold is accepted while another is rejected
C3_Witness ==
    \E p \in Procs :
        /\ pc[p] = "invoke"
        /\ all_scores[p] = <<70, 70, 5>>
        /\ threshold[p] = 70
        /\ Len(filtered_docs[p]) = 2

\* C4: when no chunk is accepted, the prompt that reaches the language model
\* has an empty context slot.
C4_NoEvidencePromptEmpty ==
    \A p \in Procs :
        (Passed(p, AfterFilter) /\ filtered_docs[p] = <<>>) =>
            \A i \in 1..Len(llm_calls[p]) : llm_calls[p][i].context = <<>>

\* C5: when a chunk is accepted, the context of the prompt is exactly the
\* accepted chunks joined by a blank line, and no rejected chunk is in it.
C5_EvidencePromptIsAccepted ==
    \A p \in Procs :
        (Passed(p, AfterFilter) /\ filtered_docs[p] /= <<>>) =>
            \A i \in 1..Len(llm_calls[p]) :
                llm_calls[p][i].context = Join(filtered_docs[p], SEP)

\* C6: when the retrieval or the language-model call raises, the exception
\* is not propagated: the call returns "Error processing query: " followed by
\* the message, and makes no further call and no retry.
C6_FailureAbsorbedNoRetry ==
    \A p \in Procs :
        Raised(p) =>
            /\ pc[p] \in {"except", "done", "http_respond", "responded"}
            /\ http_exc[p] = NoExc
            /\ exc[p].site = "retrieve" =>
                   retrieval_calls[p] = 1 /\ llm_calls[p] = <<>>
            /\ exc[p].site = "chain_retrieve" =>
                   retrieval_calls[p] = 2 /\ llm_calls[p] = <<>>
            /\ exc[p].site = "generate" =>
                   retrieval_calls[p] = 2 /\ Len(llm_calls[p]) = 1
            /\ Returned(p) => ret[p] = <<"Error processing query: ">> \o exc[p].msg

C6_Witness ==
    \E p \in Procs :
        /\ pc[p] = "done"
        /\ Raised(p)
        /\ exc[p].site = "generate"
        /\ ret[p] = <<"Error processing query: ", "e">>

\* C7: an empty, None or whitespace-only query returns "Please provide a
\* valid question." with no retrieval call and no language-model call.
C7_BlankQueryShortCircuit ==
    \A p \in Procs :
        (Entered(p) /\ BlankValue(query[p])) =>
            /\ pc[p] \in {"guard", "done", "http_respond", "responded"}
            /\ retrieval_calls[p] = 0
            /\ llm_calls[p] = <<>>
            /\ Returned(p) => ret[p] = <<"Please provide a valid question.">>

C7_Witness ==
    \E p \in Procs :
        /\ pc[p] = "done"
        /\ query[p] = PyStr(<<" ", " ">>)
        /\ ret[p] = MSG_INVALID

\* C8: a POST /rag whose body has no "message" (or an empty one) is answered
\* with a 4xx response.
C8_MissingMessageIs4xx ==
    \A p \in Procs :
        (/\ pc[p] = "responded"
         /\ via[p] = "http"
         /\ body[p].kind = "object"
         /\ ~Truthy(BodyGet(body[p]))) =>
            http_response[p].status \in 400..499

\* C9: a POST /rag with a non-empty "message" is answered 200 with a
\* non-empty answer, also when retrieval or generation raises; the
\* server-error path is never taken.
C9_NonEmptyMessageAlwaysAnswered ==
    \A p \in Procs :
        (/\ via[p] = "http"
         /\ body[p].kind = "object"
         /\ Truthy(BodyGet(body[p]))) =>
            /\ pc[p] /= "http_except"
            /\ pc[p] = "responded" =>
                   /\ http_response[p].status = 200
                   /\ http_response[p].answer /= <<>>
                   /\ Raised(p) =>
                          http_response[p].answer =
                              <<"Error processing query: ">> \o exc[p].msg

C9_Witness ==
    \E p \in Procs :
        /\ pc[p] = "responded"
        /\ via[p] = "http"
        /\ Raised(p)
        /\ exc[p].site = "retrieve"
        /\ http_response[p].status = 200

\* C10: whatever the interleaving, the batch, threshold, accepted chunks and
\* answer of an invocation are those of its own query, retrieval result and
\* language-model result, and an invocation that follows one whose retrieval
\* raised returns a normal answer when its own calls work.
C10_InvocationIsolation ==
    \A p \in Procs :
        LET own == ScoresOf(index[p])
            thr == StatedThreshold(own)
            acc == StatedAccepted(index[p], own, thr)
        IN  /\ Passed(p, AfterScores) => all_scores[p] = own
            /\ Passed(p, AfterThreshold) => threshold[p] = thr
            /\ Passed(p, AfterFilter) => filtered_docs[p] = acc
            /\ Generated(p) =>
                   /\ ret[p] /= <<>>
                   /\ Head(ret[p]) /= "Error processing query: "
                   /\ ret[p] =
                          (IF acc /= <<>>
                           THEN (IF Strip(response[p].result) = <<>>
                                 THEN MSG_APOLOGY ELSE response[p].result)
                           ELSE (IF response[p].result = <<>>
                                 THEN MSG_FALLBACK ELSE response[p].result))

\* an invocation begun after a retrieval failure answers normally while
\* another invocation is in flight with another batch
C10_Witness ==
    \E p, q \in Procs :
        /\ p /= q
        /\ after_failure[p]
        /\ Generated(p)
        /\ ret[p] = <<"a">>
        /\ filtered_docs[p] /= <<>>
        /\ pc[q] \in AfterThreshold
        /\ threshold[q] /= threshold[p]

====
